---- MODULE Spec2Model ----
(***************************************************************************)
(* Model of the Talan extension's DataService (src/unnamed/part_000 and    *)
(* src/eslint.config.mjs): URL classification and rewriting, the           *)
(* globalState-backed cache and fetchData.                                 *)
(* URLs are sequences of one-character strings, so that substring tests,   *)
(* regular-expression matches and slicing are computed as the code does.   *)
(***************************************************************************)
EXTENDS Integers, Sequences, FiniteSets, TLC

(* ---------------- string helpers ---------------- *)

Digits == {"0", "1", "2", "3", "4", "5", "6", "7", "8", "9"}

UpperLetters == <<"A", "B", "C", "D", "E", "F", "G", "H", "I", "J", "K", "L", "M",
                  "N", "O", "P", "Q", "R", "S", "T", "U", "V", "W", "X", "Y", "Z">>
LowerLetters == <<"a", "b", "c", "d", "e", "f", "g", "h", "i", "j", "k", "l", "m",
                  "n", "o", "p", "q", "r", "s", "t", "u", "v", "w", "x", "y", "z">>

(* String.prototype.toLowerCase on one character: A-Z map to a-z, every *)
(* other character of the model's URLs is unchanged                      *)
LowerChar(ch) ==
  IF \E i \in 1..Len(UpperLetters) : UpperLetters[i] = ch
  THEN LowerLetters[CHOOSE i \in 1..Len(UpperLetters) : UpperLetters[i] = ch]
  ELSE ch

ToLower(s) == [i \in 1..Len(s) |-> LowerChar(s[i])]

(* s.startsWith(p) at position i (1-based) *)
OccursAt(s, p, i) ==
  /\ i >= 1
  /\ i + Len(p) - 1 <= Len(s)
  /\ SubSeq(s, i, i + Len(p) - 1) = p

(* String.prototype.includes *)
Includes(s, p) == \E i \in 1..(Len(s) - Len(p) + 1) : OccursAt(s, p, i)

(* String.prototype.endsWith *)
EndsWith(s, p) == Len(p) <= Len(s) /\ OccursAt(s, p, Len(s) - Len(p) + 1)

Min(S) == CHOOSE m \in S : \A x \in S : m <= x
Max(S) == CHOOSE m \in S : \A x \in S : m >= x

(* ---------------- literals of the source ---------------- *)

LitConfluence == <<"c", "o", "n", "f", "l", "u", "e", "n", "c", "e">>
LitAtlassian == <<"a", "t", "l", "a", "s", "s", "i", "a", "n">>
LitCloudSpaces == <<"a", "t", "l", "a", "s", "s", "i", "a", "n", ".", "n", "e", "t", "/", "w", "i", "k", "i", "/", "s", "p", "a", "c", "e", "s">>
LitPages == <<"p", "a", "g", "e", "s", "/">>
LitHttps == <<"h", "t", "t", "p", "s", ":", "/", "/">>
LitAtlNet == <<".", "a", "t", "l", "a", "s", "s", "i", "a", "n", ".", "n", "e", "t">>
LitRestApi == <<"/", "r", "e", "s", "t", "/", "a", "p", "i", "/", "c", "o", "n", "t", "e", "n", "t">>
LitWikiRestApi == <<"/", "w", "i", "k", "i", "/", "r", "e", "s", "t", "/", "a", "p", "i", "/", "c", "o", "n", "t", "e", "n", "t", "/">>
LitExpand == <<"?", "e", "x", "p", "a", "n", "d", "=", "b", "o", "d", "y", ".", "s", "t", "o", "r", "a", "g", "e">>

ErrNoPageId == "Could not extract page ID from Confluence URL"
ErrNoDomain == "Could not extract domain from Confluence URL"

(* ---------------- DataService.isConfluenceUrl ---------------- *)

(* a variant that forgets url.toLowerCase() *)
IsConfluenceUrlCaseSensitive(url) ==
  Includes(url, LitConfluence) \/ Includes(url, LitAtlassian)

IsConfluenceUrl(url) ==
  Includes(ToLower(url), LitConfluence) \/ Includes(ToLower(url), LitAtlassian)

(* ---------------- url.match(/pages\/(\d+)/) ---------------- *)

PageIdStarts(url) ==
  {i \in 1..Len(url) : OccursAt(url, LitPages, i)
                       /\ i + 6 <= Len(url) /\ url[i + 6] \in Digits}

(* greedy \d+ from position p *)
DigitRunEnd(url, p) ==
  Max({e \in p..Len(url) : \A k \in p..e : url[k] \in Digits})

PageId(url) ==
  LET i == Min(PageIdStarts(url))
  IN  SubSeq(url, i + 6, DigitRunEnd(url, i + 6))

(* ---------------- url.match(/https:\/\/(.*?)\.atlassian\.net/) ------- *)

DomainEnds(url, i) ==
  {j \in (i + 8)..Len(url) : OccursAt(url, LitAtlNet, j)}

DomainStarts(url) ==
  {i \in 1..Len(url) : OccursAt(url, LitHttps, i) /\ DomainEnds(url, i) # {}}

Domain(url) ==
  LET i == Min(DomainStarts(url))
  IN  SubSeq(url, i + 8, Min(DomainEnds(url, i)) - 1)

(* ---------------- DataService.formatConfluenceUrl ---------------- *)
(* result: [ok |-> TRUE, val |-> url'] or [ok |-> FALSE, err |-> message] *)

Ok(v) == [ok |-> TRUE, val |-> v, err |-> ""]
Fail(e) == [ok |-> FALSE, val |-> <<>>, err |-> e]

(* a variant whose cloud endpoint omits the .atlassian.net host suffix *)
FormatConfluenceUrlNoHost(url) ==
  IF ~IsConfluenceUrl(url) THEN Ok(url)
  ELSE IF Includes(url, LitCloudSpaces)
       THEN IF PageIdStarts(url) = {} THEN Fail(ErrNoPageId)
            ELSE IF DomainStarts(url) = {} THEN Fail(ErrNoDomain)
            ELSE Ok(LitHttps \o Domain(url) \o LitWikiRestApi
                    \o PageId(url) \o LitExpand)
  ELSE IF ~Includes(url, LitRestApi)
       THEN Ok((IF EndsWith(url, <<"/">>) THEN SubSeq(url, 1, Len(url) - 1)
                ELSE url) \o LitRestApi)
  ELSE Ok(url)

(* a variant that tests url.endsWith("/rest/api/content") instead of includes *)
FormatConfluenceUrlEndsWith(url) ==
  IF ~IsConfluenceUrl(url) THEN Ok(url)
  ELSE IF Includes(url, LitCloudSpaces)
       THEN IF PageIdStarts(url) = {} THEN Fail(ErrNoPageId)
            ELSE IF DomainStarts(url) = {} THEN Fail(ErrNoDomain)
            ELSE Ok(LitHttps \o Domain(url) \o LitAtlNet \o LitWikiRestApi
                    \o PageId(url) \o LitExpand)
  ELSE IF ~EndsWith(url, LitRestApi)
       THEN Ok((IF EndsWith(url, <<"/">>) THEN SubSeq(url, 1, Len(url) - 1)
                ELSE url) \o LitRestApi)
  ELSE Ok(url)

FormatConfluenceUrl(url) ==
  IF ~IsConfluenceUrl(url) THEN Ok(url)
  ELSE IF Includes(url, LitCloudSpaces)
       THEN IF PageIdStarts(url) = {} THEN Fail(ErrNoPageId)
            ELSE IF DomainStarts(url) = {} THEN Fail(ErrNoDomain)
            ELSE Ok(LitHttps \o Domain(url) \o LitAtlNet \o LitWikiRestApi
                    \o PageId(url) \o LitExpand)
  ELSE IF ~Includes(url, LitRestApi)
       THEN Ok((IF EndsWith(url, <<"/">>) THEN SubSeq(url, 1, Len(url) - 1)
                ELSE url) \o LitRestApi)
  ELSE Ok(url)

(* ---------------- URL inputs ---------------- *)

ChunkHttp == <<"h", "t", "t", "p", ":", "/", "/">>
ChunkWikiSpaces == <<"/", "w", "i", "k", "i", "/", "s", "p", "a", "c", "e", "s", "/">>
ChunkSlashPages == <<"/", "p", "a", "g", "e", "s", "/">>
ChunkSlash == <<"/">>
ChunkTenantT == <<"t">>
ChunkTenantAB == <<"a", ".", "b">>
ChunkTenantOdd == <<"x", "/", "a", "t", "l", "a", "s", "s", "i", "a", "n", ".", "n", "e", "t", "/", "w", "i", "k", "i", "/", "s", "p", "a", "c", "e", "s", "/", "y">>
ChunkKeyK == <<"k">>
ChunkKeyPages == <<"p", "a", "g", "e", "s">>
ChunkId1 == <<"1">>
ChunkId12 == <<"1", "2">>
ChunkTailX == <<"/", "x">>
ChunkTailPages == <<"/", "p", "a", "g", "e", "s", "/", "3">>
ChunkPagesX == <<"/", "p", "a", "g", "e", "s", "/", "x">>
ChunkOnPrem == <<"c", "o", "n", "f", "l", "u", "e", "n", "c", "e", ".", "c", "o">>
ChunkOnPremUpper == <<"C", "o", "n", "f", "l", "u", "e", "n", "c", "e", ".", "c", "o", "/", "w", "i", "k", "i">>
ChunkOnPremCaps == <<"C", "O", "N", "F", "L", "U", "E", "N", "C", "E", ".", "c", "o", "/", "w", "i", "k", "i">>
ChunkAtlCaps == <<"w", "i", "k", "i", ".", "A", "T", "L", "A", "S", "S", "I", "A", "N", ".", "n", "e", "t", "/">>
ChunkXPages == <<"/", "x", "p", "a", "g", "e", "s", "/", "5">>
ChunkContent5 == <<"/", "5">>
ChunkPlainHost == <<"e", "x", ".", "c", "o", "m">>
ChunkAtlUpper == <<"w", "i", "k", "i", ".", "A", "t", "l", "a", "s", "s", "i", "a", "n", ".", "N", "e", "t", "/", "w", "i", "k", "i", "/", "s", "p", "a", "c", "e", "s", "/", "k", "/", "p", "a", "g", "e", "s", "/", "1">>

CloudInputs ==
  {LitHttps \o t \o LitAtlNet \o ChunkWikiSpaces \o k \o ChunkSlashPages \o id \o tail :
     t \in {ChunkTenantT, ChunkTenantAB}, k \in {ChunkKeyK, ChunkKeyPages},
     id \in {ChunkId1, ChunkId12}, tail \in {<<>>, ChunkTailX, ChunkTailPages}}

MalformedInputs ==
  { LitHttps \o ChunkTenantT \o LitAtlNet \o ChunkWikiSpaces \o ChunkKeyK,
    LitHttps \o ChunkTenantT \o LitAtlNet \o ChunkWikiSpaces \o ChunkKeyK \o ChunkPagesX,
    ChunkHttp \o ChunkTenantT \o LitAtlNet \o ChunkWikiSpaces \o ChunkKeyK \o ChunkSlashPages \o ChunkId1,
    LitHttps \o ChunkTenantOdd \o LitAtlNet \o ChunkWikiSpaces \o ChunkKeyK \o ChunkSlashPages \o ChunkId1,
    LitHttps \o ChunkTenantT \o LitAtlNet \o ChunkWikiSpaces \o ChunkKeyK \o ChunkXPages \o ChunkSlashPages \o ChunkId1 }

OnPremInputs ==
  {LitHttps \o h \o p :
     h \in {ChunkOnPrem, ChunkOnPremUpper},
     p \in {<<>>, ChunkSlash, ChunkTailX, LitRestApi, LitRestApi \o ChunkSlash, LitRestApi \o ChunkContent5}}
  \cup {LitHttps \o ChunkAtlUpper, LitHttps \o ChunkOnPremCaps, LitHttps \o ChunkAtlCaps}

PlainInputs ==
  {LitHttps \o ChunkPlainHost \o p :
     p \in {<<>>, ChunkSlash, ChunkSlashPages \o ChunkId1, LitRestApi}}

BaseInputs == CloudInputs \cup MalformedInputs \cup OnPremInputs \cup PlainInputs

RewriteInputs ==
  BaseInputs \cup {FormatConfluenceUrl(u).val : u \in {v \in BaseInputs : FormatConfluenceUrl(v).ok}}

(* ---------------- DataService: the globalState cache ---------------- *)

CACHE_DURATION == 1000 * 60 * 60

(* Date.now() when the extension is activated, and the clock values the *)
(* model explores: two early instants and MaxLate + 1 instants from one   *)
(* hour after the start on                                               *)
StartTime == 1
MaxLate == 1
Times == {StartTime} \cup {StartTime + CACHE_DURATION + i : i \in 0..MaxLate}

(* globalState.get of a key never written, or written with undefined *)
NoContent == "<undefined content>"
NoStamp == -1

(* the URLs passed to fetchData and clearCache *)
UrlPlain == LitHttps \o ChunkPlainHost \o ChunkSlash
UrlCloud == LitHttps \o ChunkTenantT \o LitAtlNet \o ChunkWikiSpaces \o ChunkKeyK \o ChunkSlashPages \o ChunkId1
UrlCloudNoPage == LitHttps \o ChunkTenantT \o LitAtlNet \o ChunkWikiSpaces \o ChunkKeyK

FetchUrls == {UrlPlain, UrlCloud, UrlCloudNoPage}

(* UrlPlain without its trailing slash: a distinct globalState key *)
UrlPlainNoSlash == LitHttps \o ChunkPlainHost

(* the globalState key suffixes of the model: those fetchData or        *)
(* clearCache can touch, and a key next to UrlPlain                      *)
Keys ==
  FetchUrls \cup {FormatConfluenceUrl(u).val : u \in {v \in FetchUrls : FormatConfluenceUrl(v).ok}}
  \cup {UrlPlainNoSlash}

(* the globalState keys of the cache: CACHE_KEY-url and                  *)
(* CACHE_TIMESTAMP_KEY-url for each key suffix url                         *)
UpdateKeys == {"content", "timestamp"} \X Keys

(* the keys looked up and cleared: those a fetchData of FetchUrls writes, *)
(* a non-special URL itself and the rewrite of a special one              *)
ObservedKeys ==
  {u \in FetchUrls : ~IsConfluenceUrl(u)}
  \cup {FormatConfluenceUrl(u).val : u \in {v \in FetchUrls : IsConfluenceUrl(v) /\ FormatConfluenceUrl(v).ok}}

(* isConfluenceUrl and formatConfluenceUrl on each of these URLs *)
SpecialOf == [u \in Keys |-> IsConfluenceUrl(u)]
RewriteOf == [u \in Keys |-> FormatConfluenceUrl(u)]

(* ---------------- HTTP responses and errors (axios.get) ---------------- *)
(* data: isObject is typeof data === 'object' && data !== null; storage is *)
(* data.body?.storage?.value ("" when empty); json is                      *)
(* JSON.stringify(data, null, 2)                                           *)

RespPage == [status |-> "ok", isObject |-> TRUE, storage |-> "<h1>T</h1>",
             json |-> "{\n  \"body\": {\n    \"storage\": {\n      \"value\": \"<h1>T</h1>\"\n    }\n  }\n}",
             msg |-> "", dataMsg |-> ""]
RespEmptyPage == [status |-> "ok", isObject |-> TRUE, storage |-> "",
             json |-> "{\n  \"body\": {\n    \"storage\": {\n      \"value\": \"\"\n    }\n  }\n}",
             msg |-> "", dataMsg |-> ""]
RespText == [status |-> "ok", isObject |-> FALSE, storage |-> "",
             json |-> "\"abc\"", msg |-> "", dataMsg |-> ""]
(* AxiosError: msg is error.message, dataMsg is error.response?.data?.message *)
ErrNotFound == [status |-> "error", isObject |-> FALSE, storage |-> "", json |-> "",
                msg |-> "Request failed with status code 404",
                dataMsg |-> "No content found with id: 1"]
ErrNetwork == [status |-> "error", isObject |-> FALSE, storage |-> "", json |-> "",
               msg |-> "Network Error", dataMsg |-> ""]

NoError == [status |-> "none", isObject |-> FALSE, storage |-> "", json |-> "",
            msg |-> "", dataMsg |-> ""]

(* a failure after the request that is not an AxiosError: a rejection of *)
(* axios.get with another error, or a throw while extracting the response *)
(* (TurndownService.turndown rejects a body.storage.value that is not a   *)
(* string with a TypeError); no cacheData update has been issued          *)
ErrNonAxios == [status |-> "other", isObject |-> FALSE, storage |-> "", json |-> "",
                msg |-> "TypeError", dataMsg |-> ""]

Outcomes == {RespPage, RespEmptyPage, RespText, ErrNotFound, ErrNetwork, ErrNonAxios}

(* values of the talan.confluence.username / token settings ("" = unset) *)
Usernames == {"", "me@example.com"}
Tokens == {"", "api-token"}

(* TurndownService({headingStyle: 'atx', codeBlockStyle: 'fenced'}).turndown *)
Turndown(html) == IF html = "<h1>T</h1>" THEN "# T" ELSE html

(* DataService.convertHtmlToMarkdown *)
ConvertHtmlToMarkdown(html) == Turndown(html)

(* a variant that returns the storage HTML without converting it *)
ProcessConfluenceResponseRaw(data) == data.storage

(* DataService.processConfluenceResponse, followed by fetchData's || '' *)
ProcessConfluenceResponse(data) ==
  IF data.storage # "" THEN ConvertHtmlToMarkdown(data.storage) ELSE data.storage

(* DataService.extractContent: it classifies the empty string *)
ExtractContent(data) ==
  IF IsConfluenceUrl(<<>>)
  THEN IF data.storage # "" THEN data.storage ELSE data.json
  ELSE data.json

(* DataService.getConfluenceCredentials: null unless both are non-empty *)
HasCredentials(user, tok) == user # "" /\ tok # ""

MsgNoCredentials == "Confluence credentials not found. Please configure them in VSCode settings."
MsgUnexpected == "An unexpected error occurred"
MsgConfluenceFailure ==
  "Failed to fetch Confluence data. Please ensure:\n1. Your email is correct (username for Confluence Cloud)\n2. You're using an API token (not password)\n3. You have permission to access this page\n4. The page ID is correct\n\nError details: "

(* the catch block of fetchData for an AxiosError; url is the (rewritten) url *)
FetchErrorMessageClassifyEmpty(url, err) ==
  IF IsConfluenceUrl(<<>>)
  THEN MsgConfluenceFailure \o (IF err.dataMsg # "" THEN err.dataMsg ELSE err.msg)
  ELSE "Failed to fetch data: " \o err.msg

FetchErrorMessage(url, err) ==
  IF SpecialOf[url]
  THEN MsgConfluenceFailure \o (IF err.dataMsg # "" THEN err.dataMsg ELSE err.msg)
  ELSE "Failed to fetch data: " \o err.msg

VARIABLES content, stamp, now, last, memo, calls, upq, rin, rout, rout2, rpc

NoResult == [ok |-> FALSE, val |-> <<>>, err |-> "none"]

svars == <<content, stamp, now, last, memo, calls, upq>>

(* DataService.getCachedData: the stored content, or NoContent for null *)
GetCachedDataInclusive(url) ==
  IF stamp[url] = NoStamp \/ stamp[url] = 0 \/ content[url] = NoContent THEN NoContent
  ELSE IF now - stamp[url] >= CACHE_DURATION THEN NoContent
  ELSE content[url]

GetCachedData(url) ==
  IF stamp[url] = NoStamp \/ stamp[url] = 0 \/ content[url] = NoContent THEN NoContent
  ELSE IF now - stamp[url] > CACHE_DURATION THEN NoContent
  ELSE content[url]

(* DataService.isDataFromCache *)
IsDataFromCacheNoExpiry(url, c) == content[url] # NoContent /\ content[url] = c

IsDataFromCache(url, c) ==
  IF GetCachedData(url) = NoContent THEN FALSE ELSE GetCachedData(url) = c

NoMemo == [c |-> NoContent, t |-> NoStamp]

(* the record of the last step taken: a completed call or a lookup       *)
(* carries its result; an intermediate step of a call records its kind,  *)
(* the caller's url and the storage key it works on                      *)
Idle == [kind |-> "none", url |-> <<>>, arg |-> "", ok |-> FALSE, val |-> NoContent,
         msg |-> "", http |-> 0, hit |-> FALSE, creds |-> FALSE, err |-> NoError,
         pairs |-> {}, key |-> <<>>, memo |-> NoMemo]

(* call slots: each slot runs one fetchData or clearCache call, whose    *)
(* steps are separated by the awaits of the code                          *)
MaxCalls == 2
Calls == 1..MaxCalls

(* a slot's fields: gets counts the axios.get requests of the call; cw   *)
(* and sw hold while the call's content (timestamp) update is the latest  *)
(* update of its key; dist records an update of its key by another call   *)
(* between the call's first update and its return; clr records a         *)
(* clearCache of its key completing while the fetch was in flight         *)
CallIdle == [pc |-> "idle", op |-> "none", url |-> <<>>, key |-> <<>>, creds |-> FALSE,
             val |-> NoContent, t |-> NoStamp, prev |-> NoContent, dist |-> FALSE,
             snap |-> <<>>, m |-> NoMemo, gets |-> 0, cw |-> FALSE, sw |-> FALSE,
             clr |-> FALSE]

(* a call that has completed without writing *)
CallDone == [CallIdle EXCEPT !.pc = "done"]

(* a fetchData that has completed after both cacheData updates: its key, *)
(* the content and Date.now() it wrote are kept                           *)
FetchDone(cl) ==
  [CallDone EXCEPT !.op = "fetch", !.key = cl.key, !.val = cl.val, !.t = cl.t,
                   !.cw = cl.cw, !.sw = cl.sw, !.dist = cl.dist, !.clr = cl.clr]

ServiceInitOn(slots) ==
  /\ content = [k \in Keys |-> NoContent]
  /\ stamp = [k \in Keys |-> NoStamp]
  /\ now = StartTime
  /\ last = Idle
  /\ memo = [k \in Keys |-> NoMemo]
  /\ calls = [c \in slots |-> CallIdle]
  /\ upq = [q \in UpdateKeys |-> <<>>]

ServiceInit == ServiceInitOn(Calls)

(* slots are taken in order *)
SlotFree(c) == calls[c].pc = "idle" /\ IF c = 1 THEN TRUE ELSE calls[c - 1].pc # "idle"

(* ---------------- globalState.update settlement ---------------- *)
(* update(key, value) stores value in memory at once and returns a       *)
(* promise that settles when the value is flushed.  The store serializes *)
(* the updates of each key (spec section 5): the promises of one key     *)
(* settle in the order its updates were issued, while updates of         *)
(* different keys (CACHE_KEY-url and CACHE_TIMESTAMP_KEY-url, or other   *)
(* urls) settle in any relative order.  upq[<<kind, url>>] holds the     *)
(* slots awaiting an update of that key, oldest first.                    *)
(* slot c issues an update of key q *)
Issue(qs, q, c) == [qs EXCEPT ![q] = Append(qs[q], c)]

(* slot c is the next to resume from an update of key q *)
Resumes(c, q) == upq[q] # <<>> /\ Head(upq[q]) = c

(* the update of key q settles for its oldest waiting slot *)
Settle(qs, q) == [qs EXCEPT ![q] = Tail(qs[q])]

(* the slots after an update of key k issued by slot c: a clear of k     *)
(* between its first update and its return that another fetch's update   *)
(* meets is disturbed; a fetch of k between its content update and its   *)
(* return that another call's update meets is disturbed; the latest-      *)
(* update flags of k move to c                                            *)
AfterUpdate(cs, k, c, isFetch, isContent) ==
  [d \in DOMAIN cs |->
     IF d = c
     THEN IF isContent THEN [cs[d] EXCEPT !.cw = TRUE] ELSE [cs[d] EXCEPT !.sw = TRUE]
     ELSE IF cs[d].key = k
     THEN [cs[d] EXCEPT
             !.dist = \/ cs[d].dist
                      \/ isFetch /\ cs[d].op = "clear" /\ cs[d].pc \in {"cstamp", "cret"}
                      \/ cs[d].op = "fetch" /\ cs[d].pc \in {"stamp", "ret"},
             !.cw = IF isContent THEN FALSE ELSE cs[d].cw,
             !.sw = IF isContent THEN cs[d].sw ELSE FALSE]
     ELSE cs[d]]

FetchBase(url, creds) == [Idle EXCEPT !.kind = "fetch", !.url = url, !.key = url, !.creds = creds]

(* fetchData(url) up to the await of axios.get: the cache lookup, the    *)
(* classification, the rewrite and the credentials, and the request.     *)
(* A hit returns, and every throw before the await reaches the catch,    *)
(* which rethrows a non-AxiosError as "An unexpected error occurred".    *)
FetchDataStart(c, url, user, tok) ==
  LET cached == GetCachedData(url)
      special == SpecialOf[url]
      fmt == IF special THEN RewriteOf[url] ELSE Ok(url)
      url2 == fmt.val
      creds == HasCredentials(user, tok)
      fresh == IF memo[url] # NoMemo /\ now - memo[url].t <= CACHE_DURATION
               THEN memo[url] ELSE NoMemo
      base == [FetchBase(url, special /\ creds) EXCEPT !.memo = fresh]
  IN
  /\ SlotFree(c)
  /\ IF cached # NoContent
     THEN /\ last' = [base EXCEPT !.ok = TRUE, !.val = cached, !.hit = TRUE,
                                  !.http = calls[c].gets]
          /\ calls' = [calls EXCEPT ![c] = CallDone]
     ELSE IF ~fmt.ok
     THEN /\ last' = [base EXCEPT !.msg = MsgUnexpected, !.http = calls[c].gets]
          /\ calls' = [calls EXCEPT ![c] = CallDone]
     ELSE IF special /\ ~creds
     THEN /\ last' = [base EXCEPT !.msg = MsgUnexpected, !.key = url2,
                                  !.http = calls[c].gets]
          /\ calls' = [calls EXCEPT ![c] = CallDone]
     ELSE /\ last' = [Idle EXCEPT !.kind = "fetchRequest", !.url = url, !.key = url2]
          /\ calls' = [calls EXCEPT ![c] = [CallIdle EXCEPT !.pc = "http", !.op = "fetch",
                                              !.url = url, !.key = url2, !.m = fresh,
                                              !.creds = special /\ creds,
                                              !.snap = <<content, stamp>>,
                                              !.gets = calls[c].gets + 1]]
  /\ UNCHANGED <<content, stamp, now, memo, upq>>

(* globalState.update(CACHE_KEY-url, data) in cacheData: the new value   *)
(* replaces the old one                                                   *)
ContentAfterWriteIfAbsent(old, new) == IF old = NoContent THEN new ELSE old

ContentAfterWrite(old, new) == new

(* the content write of cacheData(url, {content}) *)
StoredContentOnAnyResponse(k, ok, v) == [content EXCEPT ![k] = ContentAfterWrite(content[k], v)]

StoredContent(k, ok, v) ==
  IF ok THEN [content EXCEPT ![k] = ContentAfterWrite(content[k], v)] ELSE content

(* globalState.update(CACHE_TIMESTAMP_KEY-url, Date.now()) in cacheData *)
CacheTimestampSeconds(t) == t \div 1000

CacheTimestamp(t) == t

(* axios.get settles: an AxiosError reaches the catch and is turned into *)
(* the fetch-failure message; any other error, or a throw while the      *)
(* response is extracted, into "An unexpected error occurred"; otherwise *)
(* the content is extracted and the first update of cacheData (the       *)
(* content) is issued and awaited                                         *)
FetchDataResponse(c, o) ==
  LET cl == calls[c]
      k == cl.key
      v == IF SpecialOf[k] /\ o.isObject THEN ProcessConfluenceResponse(o) ELSE ExtractContent(o)
  IN
  /\ cl.pc = "http"
  /\ IF o.status = "error"
     THEN /\ content' = StoredContent(k, FALSE, FetchErrorMessage(k, o))
          /\ last' = [FetchBase(cl.url, cl.creds) EXCEPT !.msg = FetchErrorMessage(k, o),
                        !.http = cl.gets, !.key = k, !.err = o, !.memo = cl.m]
          /\ calls' = [calls EXCEPT ![c] = CallDone]
          /\ UNCHANGED upq
     ELSE IF o.status = "other"
     THEN /\ content' = StoredContent(k, FALSE, MsgUnexpected)
          /\ last' = [FetchBase(cl.url, cl.creds) EXCEPT !.msg = MsgUnexpected,
                        !.http = cl.gets, !.key = k, !.err = o, !.memo = cl.m]
          /\ calls' = [calls EXCEPT ![c] = CallDone]
          /\ UNCHANGED upq
     ELSE /\ content' = StoredContent(k, TRUE, v)
          /\ last' = [Idle EXCEPT !.kind = "fetchContent", !.url = cl.url, !.key = k]
          /\ calls' = [AfterUpdate(calls, k, c, TRUE, TRUE) EXCEPT ![c].pc = "stamp",
                                                                  ![c].val = v, ![c].snap = <<>>]
          /\ upq' = Issue(upq, <<"content", k>>, c)
  /\ UNCHANGED <<stamp, now, memo>>

(* cacheData resumes and issues the second update, the timestamp         *)
(* Date.now(), and awaits it                                              *)
FetchDataCacheTimestamp(c) ==
  LET k == calls[c].key IN
  /\ calls[c].pc = "stamp"
  /\ Resumes(c, <<"content", k>>)
  /\ stamp' = [stamp EXCEPT ![k] = CacheTimestamp(now)]
  /\ last' = [Idle EXCEPT !.kind = "fetchStamp", !.url = calls[c].url, !.key = k]
  /\ calls' = [AfterUpdate(calls, k, c, TRUE, FALSE) EXCEPT ![c].pc = "ret", ![c].t = now]
  /\ upq' = Issue(Settle(upq, <<"content", k>>), <<"timestamp", k>>, c)
  /\ UNCHANGED <<content, now, memo>>

(* cacheData and fetchData resume; fetchData returns the extracted content *)
FetchDataReturn(c) ==
  LET cl == calls[c] IN
  /\ cl.pc = "ret"
  /\ Resumes(c, <<"timestamp", cl.key>>)
  /\ last' = [FetchBase(cl.url, cl.creds) EXCEPT !.ok = TRUE, !.val = cl.val, !.http = cl.gets,
                                                 !.key = cl.key, !.memo = cl.m]
  /\ calls' = [calls EXCEPT ![c] = FetchDone(cl)]
  /\ memo' = [memo EXCEPT ![cl.url] = [c |-> cl.val, t |-> cl.t]]
  /\ upq' = Settle(upq, <<"timestamp", cl.key>>)
  /\ UNCHANGED <<content, stamp, now>>

(* the key clearCache(url) updates *)
ClearKeyNormalized(url) == IF EndsWith(url, <<"/">>) THEN SubSeq(url, 1, Len(url) - 1) ELSE url

ClearKey(url) == url

(* clearCache(url): the first update, content := undefined *)
ClearCacheStart(c, url) ==
  LET k == ClearKey(url) IN
  /\ SlotFree(c)
  /\ content' = [content EXCEPT ![k] = NoContent]
  /\ last' = [Idle EXCEPT !.kind = "clearContent", !.url = url, !.key = k]
  /\ calls' = [AfterUpdate(calls, k, c, FALSE, TRUE) EXCEPT
                 ![c] = [CallIdle EXCEPT !.pc = "cstamp", !.op = "clear", !.url = url,
                                         !.key = k, !.prev = GetCachedData(url), !.cw = TRUE]]
  /\ memo' = [memo EXCEPT ![url] = NoMemo]
  /\ upq' = Issue(upq, <<"content", k>>, c)
  /\ UNCHANGED <<stamp, now>>

(* clearCache resumes: the second update, timestamp := undefined *)
ClearCacheTimestamp(c) ==
  LET k == calls[c].key IN
  /\ calls[c].pc = "cstamp"
  /\ Resumes(c, <<"content", k>>)
  /\ stamp' = [stamp EXCEPT ![k] = NoStamp]
  /\ last' = [Idle EXCEPT !.kind = "clearStamp", !.url = calls[c].url, !.key = k]
  /\ calls' = [AfterUpdate(calls, k, c, FALSE, FALSE) EXCEPT ![c].pc = "cret"]
  /\ upq' = Issue(Settle(upq, <<"content", k>>), <<"timestamp", k>>, c)
  /\ UNCHANGED <<content, now, memo>>

(* clearCache resumes and returns; ok records that no other call wrote   *)
(* the key while the clear ran, val the lookup before the clear; every   *)
(* fetch of the key still in flight is marked                             *)
ClearCacheReturn(c) ==
  LET cl == calls[c] IN
  /\ cl.pc = "cret"
  /\ Resumes(c, <<"timestamp", cl.key>>)
  /\ last' = [Idle EXCEPT !.kind = "clear", !.url = cl.url, !.key = cl.key, !.val = cl.prev,
                          !.ok = ~cl.dist]
  /\ calls' = [d \in DOMAIN calls |->
                 IF d = c THEN CallDone
                 ELSE IF calls[d].op = "fetch" /\ calls[d].key = cl.key
                         /\ calls[d].pc \in {"http", "stamp", "ret"}
                 THEN [calls[d] EXCEPT !.clr = TRUE]
                 ELSE calls[d]]
  /\ upq' = Settle(upq, <<"timestamp", cl.key>>)
  /\ UNCHANGED <<content, stamp, now, memo>>

(* a variant that deletes an expired entry when it finds one *)
GetCachedSweeping(url) ==
  LET expired == stamp[url] # NoStamp /\ now - stamp[url] > CACHE_DURATION IN
  /\ last' = [Idle EXCEPT !.kind = "get", !.url = url, !.val = GetCachedData(url),
                          !.ok = GetCachedData(url) # NoContent]
  /\ content' = IF expired THEN [content EXCEPT ![url] = NoContent] ELSE content
  /\ stamp' = IF expired THEN [stamp EXCEPT ![url] = NoStamp] ELSE stamp
  /\ UNCHANGED <<now, memo, calls, upq>>

(* a cache lookup, DataService.getCachedData(url) *)
GetCached(url) ==
  /\ last' = [Idle EXCEPT !.kind = "get", !.url = url, !.val = GetCachedData(url),
                          !.ok = GetCachedData(url) # NoContent]
  /\ UNCHANGED <<content, stamp, now, memo, calls, upq>>

(* the contents isDataFromCache is asked about *)
ProbeContents == {"# T"}

CheckFromCache(url, c) ==
  /\ last' = [Idle EXCEPT !.kind = "fromCache", !.url = url, !.arg = c,
                          !.ok = IsDataFromCache(url, c)]
  /\ UNCHANGED <<content, stamp, now, memo, calls, upq>>

(* the chat handler's 'ask' command: DataService defines no             *)
(* getAllCachedData, so the call throws a TypeError, which the handler's *)
(* catch block streams as "Error: " followed by its message              *)
MsgAskTypeError == "Error: dataService.getAllCachedData is not a function"

AskCommand ==
  /\ last' = [Idle EXCEPT !.kind = "ask", !.msg = MsgAskTypeError]
  /\ UNCHANGED <<content, stamp, now, memo, calls, upq>>

(* Date.now() advances to a later instant of Times *)
Tick ==
  \E t \in Times :
    /\ t > now
    /\ now' = t
    /\ last' = [Idle EXCEPT !.kind = "tick"]
    /\ UNCHANGED <<content, stamp, memo, calls, upq>>

RewriteIdle ==
  /\ rin = <<>>
  /\ rout = NoResult
  /\ rout2 = NoResult
  /\ rpc = "init"

Init == ServiceInit /\ RewriteIdle

Next ==
  \/ \E c \in Calls, u \in FetchUrls, usr \in Usernames, tok \in Tokens :
       FetchDataStart(c, u, usr, tok)
  \/ \E c \in Calls, o \in Outcomes : FetchDataResponse(c, o)
  \/ \E c \in Calls : FetchDataCacheTimestamp(c)
  \/ \E c \in Calls : FetchDataReturn(c)
  \/ \E c \in Calls, u \in ObservedKeys : ClearCacheStart(c, u)
  \/ \E c \in Calls : ClearCacheTimestamp(c)
  \/ \E c \in Calls : ClearCacheReturn(c)
  \/ \E u \in ObservedKeys : GetCached(u)
  \/ \E u \in ObservedKeys, c \in ProbeContents : CheckFromCache(u, c)
  \/ AskCommand
  \/ Tick

vars == <<content, stamp, now, last, memo, calls, upq, rin, rout, rout2, rpc>>

Spec == Init /\ [][Next /\ UNCHANGED <<rin, rout, rout2, rpc>>]_vars

(* ---------------- concurrent calls on one URL ---------------- *)
(* The same steps with more call slots, all on ConcUrl: fetchData and    *)
(* clearCache calls interleave at their awaits while Date.now() moves    *)
(* past the cache duration.                                               *)

ConcUrl == UrlPlain
MaxConcCalls == 3
ConcCalls == 1..MaxConcCalls
ConcOutcomes == {RespPage, RespText, ErrNetwork}

InitConcurrent == ServiceInitOn(ConcCalls) /\ RewriteIdle

NextConcurrent ==
  \/ \E c \in ConcCalls : FetchDataStart(c, ConcUrl, "", "")
  \/ \E c \in ConcCalls, o \in ConcOutcomes : FetchDataResponse(c, o)
  \/ \E c \in ConcCalls : FetchDataCacheTimestamp(c)
  \/ \E c \in ConcCalls : FetchDataReturn(c)
  \/ \E c \in ConcCalls : ClearCacheStart(c, ConcUrl)
  \/ \E c \in ConcCalls : ClearCacheTimestamp(c)
  \/ \E c \in ConcCalls : ClearCacheReturn(c)
  \/ Tick

SpecConcurrent == InitConcurrent /\ [][NextConcurrent /\ UNCHANGED <<rin, rout, rout2, rpc>>]_vars

(* ---------------- rewriting as a state machine ---------------- *)


InitRewrite ==
  /\ rin \in RewriteInputs
  /\ rout = NoResult
  /\ rout2 = NoResult
  /\ rpc = "init"
  /\ ServiceInit

RewriteOnce ==
  /\ rpc = "init"
  /\ rout' = FormatConfluenceUrl(rin)
  /\ rpc' = "once"
  /\ UNCHANGED <<rin, rout2>>

RewriteTwice ==
  /\ rpc = "once"
  /\ rout.ok
  /\ rout2' = FormatConfluenceUrl(rout.val)
  /\ rpc' = "twice"
  /\ UNCHANGED <<rin, rout>>

NextRewrite == RewriteOnce \/ RewriteTwice

SpecRewrite == InitRewrite /\ [][NextRewrite /\ UNCHANGED svars]_vars

(* ---------------- the cloud "spaces" page-link form of the claims ------- *)
(* https://{tenant}.atlassian.net/wiki/spaces/.../pages/{id}/...            *)

LitCloudMarker == LitAtlNet \o ChunkWikiSpaces

CloudMarkerAt(u) == {e \in 9..Len(u) : OccursAt(u, LitCloudMarker, e)}

CloudTenant(u) == SubSeq(u, 9, Min(CloudMarkerAt(u)) - 1)

CloudIdStarts(u) ==
  {i \in (Min(CloudMarkerAt(u)) + Len(LitCloudMarker))..Len(u) :
     OccursAt(u, ChunkSlashPages, i) /\ i + 7 <= Len(u) /\ u[i + 7] \in Digits}

CloudId(u) ==
  LET i == Min(CloudIdStarts(u)) IN SubSeq(u, i + 7, DigitRunEnd(u, i + 7))

CloudForm(u) ==
  /\ OccursAt(u, LitHttps, 1)
  /\ CloudMarkerAt(u) # {}
  /\ Len(CloudTenant(u)) > 0
  /\ \A k \in 1..Len(CloudTenant(u)) : CloudTenant(u)[k] # "/"
  /\ CloudIdStarts(u) # {}
  /\ LET i == Min(CloudIdStarts(u)) IN
       \/ DigitRunEnd(u, i + 7) = Len(u)
       \/ u[DigitRunEnd(u, i + 7) + 1] = "/"

StripOneSlash(u) == IF EndsWith(u, ChunkSlash) THEN SubSeq(u, 1, Len(u) - 1) ELSE u

(* ---------------- claims about the cache and fetchData ---------------- *)

FetchStep == last'.kind = "fetch"

(* a step in which call slot c completes its fetchData call *)
(* C1: after fetchData(u) fetched content c over the network, a later     *)
(* fetchData(u) issued within the TTL (and with no clearCache(u) between) *)
(* returns c and issues no HTTP call.                                     *)
C1_WriteThrough ==
  [][ (FetchStep /\ last'.memo # NoMemo)
      => (last'.ok /\ last'.val = last'.memo.c /\ last'.http = 0) ]_vars

(* C2: fetchData(u) on a special URL with no fresh entry and a missing   *)
(* username or token fails with the configure-credentials message,       *)
(* issues no HTTP call and leaves the cache unchanged.                   *)
C2_MissingCredentials ==
  [][ (FetchStep /\ SpecialOf[last'.url] /\ ~last'.hit /\ RewriteOf[last'.url].ok
       /\ ~last'.creds)
      => (~last'.ok /\ last'.msg = MsgNoCredentials /\ last'.http = 0
          /\ content' = content /\ stamp' = stamp) ]_vars

(* C3: a failed fetchData leaves every stored content and timestamp as it *)
(* was before the call (the claim as stated).                             *)
C3_Original ==
  [][ (FetchStep /\ ~last'.ok) =>
        \/ last'.http = 0 /\ content' = content /\ stamp' = stamp
        \/ \E c \in Calls : calls[c].pc = "http" /\ calls'[c].pc = "done"
                           /\ <<content', stamp'>> = calls[c].snap ]_vars

(* C3 (amended): a failing fetchData writes no content and no timestamp: *)
(* the step at which it fails leaves the store unchanged, and every write *)
(* of a fetchData call belongs to a call past a successful response       *)
(* (which goes on to return its content); other calls may still change    *)
(* the store while a call awaits its response.                            *)
C3_FailureNotCached ==
  /\ [][ (FetchStep /\ ~last'.ok) => (content' = content /\ stamp' = stamp) ]_vars
  /\ [][ (last'.kind \in {"fetchContent", "fetchStamp"} /\ <<content', stamp'>> # <<content, stamp>>)
        => \E c \in Calls :
             \/ calls[c].pc = "http" /\ calls'[c].pc = "stamp"
             \/ calls[c].pc = "stamp" /\ calls'[c].pc = "ret" ]_vars

C3_Witness ==
  /\ last.kind = "fetch" /\ ~last.ok /\ last.http = 1
  /\ \E k \in Keys : content[k] # NoContent

(* C4: the cache lookup returns the stored content iff both content and   *)
(* timestamp are stored for the key and now - timestamp <= 1 hour, and    *)
(* absent otherwise.                                                      *)
C4_Freshness ==
  last.kind = "get" =>
    last.val = IF content[last.url] # NoContent /\ stamp[last.url] # NoStamp
                  /\ now - stamp[last.url] <= CACHE_DURATION
               THEN content[last.url] ELSE NoContent

C4_Witness ==
  /\ last.kind = "get" /\ last.val # NoContent
  /\ now - stamp[last.url] = CACHE_DURATION

(* C5: after clearCache(u) completes the lookup of u is absent and       *)
(* isDataFromCache(u, c) is false for every c; clearing an already       *)
(* cleared key changes nothing (the claim as stated).                     *)
C5_Original ==
  /\ [](last.kind = "clear" =>
         /\ GetCachedData(last.url) = NoContent
         /\ \A c \in ProbeContents : ~IsDataFromCache(last.url, c))
  /\ [][ (last'.kind \in {"clearContent", "clearStamp"}
         /\ content[last'.key] = NoContent /\ stamp[last'.key] = NoStamp)
        => (content' = content /\ stamp' = stamp) ]_vars

(* C5 (amended): when no other call writes u's content or timestamp      *)
(* between clearCache(u)'s first update and its completion, the lookup of *)
(* u is absent and isDataFromCache(u, c) is false for every c when it     *)
(* completes; clearing an already cleared key changes nothing.            *)
C5_Invalidation ==
  /\ [](last.kind = "clear" /\ last.ok =>
         /\ GetCachedData(last.url) = NoContent
         /\ \A c \in ProbeContents : ~IsDataFromCache(last.url, c))
  /\ [][ (last'.kind \in {"clearContent", "clearStamp"}
         /\ content[last'.key] = NoContent /\ stamp[last'.key] = NoStamp)
        => (content' = content /\ stamp' = stamp) ]_vars

C5_Witness == last.kind = "clear" /\ last.ok /\ last.val # NoContent

(* C6: isDataFromCache(u, c) is true iff a non-expired entry exists for u *)
(* and its stored content equals c.                                       *)
C6_FromCache ==
  last.kind = "fromCache" =>
    (last.ok <=> (/\ content[last.url] # NoContent /\ stamp[last.url] # NoStamp
                  /\ now - stamp[last.url] <= CACHE_DURATION
                  /\ content[last.url] = last.arg))

C6_Witness == last.kind = "fromCache" /\ last.ok /\ SpecialOf[last.url]

(* C7: fetchData on a cloud spaces URL without a pages/{digits} segment  *)
(* or without an https://{tenant}.atlassian.net prefix fails with the     *)
(* page-ID or domain extraction message and issues no HTTP call.          *)
C7_UrlFormatError ==
  [][ (FetchStep /\ ~last'.hit /\ SpecialOf[last'.url]
       /\ Includes(last'.url, LitCloudSpaces) /\ ~RewriteOf[last'.url].ok)
      => (~last'.ok /\ last'.msg \in {ErrNoPageId, ErrNoDomain} /\ last'.http = 0) ]_vars

(* C8: a cache hit issues no HTTP call and a miss at most one; a GET     *)
(* that fails with an AxiosError yields the four-cause message plus the   *)
(* error detail for a special URL and "Failed to fetch data: ..."         *)
(* otherwise; any other error after the request (not an AxiosError)      *)
(* yields "An unexpected error occurred".                                 *)
C8_FailureDiagnostics ==
  last.kind = "fetch" =>
    /\ last.hit => last.http = 0
    /\ last.http <= 1
    /\ (~last.ok /\ last.err.status = "error") =>
         last.msg = IF IsConfluenceUrl(last.url)
                    THEN MsgConfluenceFailure \o (IF last.err.dataMsg # ""
                                                 THEN last.err.dataMsg ELSE last.err.msg)
                    ELSE "Failed to fetch data: " \o last.err.msg
    /\ (~last.ok /\ last.err.status = "other") => last.msg = MsgUnexpected

C8_Witness ==
  /\ last.kind = "fetch" /\ ~last.ok /\ last.http = 1
  /\ IsConfluenceUrl(last.url) /\ last.err = ErrNetwork

(* C9: for a non-special URL u, rewriting returns u; for a special URL of *)
(* the cloud spaces form it returns                                       *)
(* https://{tenant}.atlassian.net/wiki/rest/api/content/{id}?expand=body.storage; *)
(* for any other special URL that does not end in /rest/api/content it    *)
(* returns u with one trailing slash stripped and /rest/api/content       *)
(* appended, otherwise u itself (the claim as stated).                    *)
C9_Original ==
  rpc # "init" =>
    /\ ~IsConfluenceUrl(rin) => rout = Ok(rin)
    /\ CloudForm(rin) =>
         rout = Ok(LitHttps \o CloudTenant(rin) \o LitAtlNet \o LitWikiRestApi
                   \o CloudId(rin) \o LitExpand)
    /\ (IsConfluenceUrl(rin) /\ ~CloudForm(rin) /\ rout.ok) =>
         rout.val = IF ~EndsWith(rin, LitRestApi)
                    THEN StripOneSlash(rin) \o LitRestApi ELSE rin

(* C10: whenever rewriting u succeeds, rewriting its result succeeds and  *)
(* returns the same URL (the claim as stated).                           *)
C10_Original == rpc = "twice" => rout2 = rout

(* C11: isConfluenceUrl(u) holds iff u contains "confluence" or          *)
(* "atlassian" with each letter in either case; the result depends on u  *)
(* alone.  The letter pairs are spelled out independently of LowerChar.  *)
CaseFoldPairs ==
  { <<"a", "A">>, <<"c", "C">>, <<"e", "E">>, <<"f", "F">>, <<"i", "I">>,
    <<"l", "L">>, <<"n", "N">>, <<"o", "O">>, <<"s", "S">>, <<"t", "T">>,
    <<"u", "U">> }

SameLetterIgnoringCase(x, p) == x = p \/ <<p, x>> \in CaseFoldPairs

ContainsIgnoringCase(u, p) ==
  \E i \in 1..Len(u) :
    /\ i + Len(p) - 1 <= Len(u)
    /\ \A k \in 1..Len(p) : SameLetterIgnoringCase(u[i + k - 1], p[k])

C11_Classification ==
  rpc # "init" =>
    (IsConfluenceUrl(rin) <=>
       (ContainsIgnoringCase(rin, LitConfluence) \/ ContainsIgnoringCase(rin, LitAtlassian)))

C11_Witness ==
  /\ rpc = "once"
  /\ IsConfluenceUrl(rin)
  /\ ~Includes(rin, LitConfluence) /\ ~Includes(rin, LitAtlassian)

(* C12: the data service enumerates the cached entries: the 'ask'        *)
(* command obtains exactly the (url, content) pairs of the stored        *)
(* entries.                                                               *)
C12_Enumeration ==
  last.kind = "ask" =>
    /\ last.ok
    /\ last.pairs = {<<k, content[k]>> : k \in {j \in Keys : content[j] # NoContent}}

(* every call slot is idle or has completed its call *)
Quiescent == \A c \in DOMAIN calls : calls[c].pc \in {"idle", "done"}

(* C13: when fetchData(u) calls interleave, once all have completed, a    *)
(* fetch whose content update is the latest update of u's content also    *)
(* made the latest update of u's timestamp, and the stored content and    *)
(* timestamp are that fetch's content and Date.now(): never the content   *)
(* of one fetch paired with the timestamp of another.                     *)
C13_LastWriteWins ==
  Quiescent =>
    \A c \in DOMAIN calls :
      (calls[c].op = "fetch" /\ (calls[c].cw \/ calls[c].sw)) =>
        /\ calls[c].cw /\ calls[c].sw
        /\ content[calls[c].key] = calls[c].val
        /\ stamp[calls[c].key] = calls[c].t

C13_Witness ==
  /\ Quiescent
  /\ \E a, b \in DOMAIN calls :
       /\ a # b
       /\ calls[a].op = "fetch" /\ calls[b].op = "fetch"
       /\ calls[a].val # calls[b].val
       /\ calls[a].dist

(* C16: if clearCache(u) completes while a fetchData(u) that missed the   *)
(* cache is suspended at its HTTP call or its cache writes, then once     *)
(* that fetch completes get(u) returns absent (the claim as stated).      *)
C16_Original ==
  [][ \A c \in DOMAIN calls :
        (calls[c].op = "fetch" /\ calls[c].clr /\ calls[c].pc \in {"http", "ret"}
         /\ calls'[c].pc = "done")
        => \E k \in Keys : k = calls[c].key /\ GetCachedData(k)' = NoContent ]_vars

(* C16 (amended): invalidation does not fence an in-flight fetch: if      *)
(* clearCache(u) completes while a fetchData(u) is in flight and the      *)
(* fetch succeeds, and no other call has updated u's content or timestamp *)
(* since the fetch's own updates, then when the fetch completes the       *)
(* stored content and timestamp are the fetch's content and Date.now(),   *)
(* so get(u) returns that content while now - Date.now() <= 1 hour.       *)
C16_InFlightRepopulates ==
  [][ \A c \in DOMAIN calls :
        (calls[c].op = "fetch" /\ calls[c].clr /\ calls[c].cw /\ calls[c].sw
         /\ calls[c].pc = "ret" /\ calls'[c].pc = "done")
        => \E k \in Keys :
             /\ k = calls[c].key
             /\ content'[k] = calls[c].val
             /\ stamp'[k] = calls[c].t
             /\ GetCachedData(k)' = IF now' - calls[c].t <= CACHE_DURATION
                                    THEN calls[c].val ELSE NoContent ]_vars

C16_Witness ==
  /\ last.kind = "fetch" /\ last.ok
  /\ \E c \in DOMAIN calls :
       /\ calls[c].op = "fetch" /\ calls[c].pc = "done"
       /\ calls[c].clr /\ calls[c].cw /\ calls[c].sw
       /\ calls[c].key = last.key /\ calls[c].val = last.val
       /\ GetCachedData(last.key) = last.val

(* C14: every stored content is the extraction output for its key's      *)
(* classification and some response: for a special key and an object     *)
(* response, the markdown of a non-empty body.storage.value or "" when it *)
(* is empty; otherwise JSON.stringify(response, null, 2); and a cache hit *)
(* returns the stored text as it is.                                      *)
ExpectedExtraction(special, o) ==
  IF special /\ o.isObject
  THEN IF o.storage # "" THEN Turndown(o.storage) ELSE ""
  ELSE o.json

C14_NormalizedOnly ==
  /\ [](\A k \in Keys :
         content[k] # NoContent =>
           \E o \in {x \in Outcomes : x.status = "ok"} :
             content[k] = ExpectedExtraction(SpecialOf[k], o))
  /\ [][ (last'.kind = "fetch" /\ last'.hit) => last'.val = content[last'.url] ]_vars

C14_Witness ==
  /\ last.kind = "fetch" /\ last.hit
  /\ SpecialOf[last.url] = FALSE
  /\ last.val = RespPage.json

(* C15: the cache lookup, isDataFromCache and a fetchData that hits the  *)
(* cache change no stored content or timestamp, and a stored entry (in    *)
(* particular an expired one) changes only through a fetchData that       *)
(* writes its key or a clearCache of its key.                             *)
WriteKinds == {"fetchContent", "fetchStamp", "clearContent", "clearStamp"}

C15_LazyExpiry ==
  [][ /\ (last'.kind \in {"get", "fromCache"} \/ (last'.kind = "fetch" /\ last'.hit))
        => (content' = content /\ stamp' = stamp)
      /\ \A k \in Keys :
           (content'[k] # content[k] \/ stamp'[k] # stamp[k]) =>
             last'.kind \in WriteKinds /\ last'.key = k ]_vars

C15_Witness ==
  /\ last.kind = "get" /\ ~last.ok
  /\ content[last.url] # NoContent
  /\ now - stamp[last.url] > CACHE_DURATION

(* C17: for every special URL u that rewriting accepts, the rewritten URL *)
(* is special too.                                                         *)
C17_RewritePreservesClass ==
  (rpc # "init" /\ IsConfluenceUrl(rin) /\ rout.ok) => IsConfluenceUrl(rout.val)

C17_Witness ==
  /\ rpc = "once" /\ rout.ok /\ CloudForm(rin)
  /\ IsConfluenceUrl(rout.val)

(* C18: a fetchData or clearCache on u1 never changes the stored content, *)
(* timestamp or lookup result of any other key u2 # u1.                    *)
C18_KeysIndependent ==
  [][ last'.kind \in WriteKinds =>
        \A k \in Keys \ {last'.url} :
          /\ content'[k] = content[k]
          /\ stamp'[k] = stamp[k]
          /\ GetCachedData(k)' = GetCachedData(k) ]_vars

====
